---- MODULE Spec2Model ----
(***************************************************************************)
(* Model of src/src/lint/launcher.py: the pre-commit lint runner.          *)
(*                                                                         *)
(*   Spec      the orchestrator lint_with_pre_commit, step by step, with   *)
(*             the filesystem, the launched processes and the outcome      *)
(*   SpecCmd   _build_base_cmd over a bounded set of requests              *)
(*   SpecText  _parse_text_summary over bounded stdout texts               *)
(*   SpecJson  the structured-payload branch over bounded payloads         *)
(*   SpecRun   _run's argument vector over bounded vectors and layouts     *)
(***************************************************************************)
EXTENDS Integers, Sequences, FiniteSets, TLC

(***************************************************************************)
(* Python values.  Values of different Python types are records with       *)
(* different field sets, so that they compare unequal.                     *)
(***************************************************************************)
None == [t |-> "none"]
Str(s) == [t |-> "str", s |-> s]
Num(n) == [t |-> "num", n |-> n]
List(xs) == [t |-> "list", xs |-> xs]
Dict(d) == [t |-> "dict", d |-> d]

\* bool(v) for the values the launcher tests: None, "", [] and {} are falsy.
Truthy(v) ==
    CASE v.t = "none" -> FALSE
      [] v.t = "str" -> v.s # ""
      [] v.t = "list" -> v.xs # <<>>
      [] v.t = "dict" -> DOMAIN v.d # {}
      [] OTHER -> TRUE

\* dict.get(key): the value, or None when the key is missing.
Get(item, key) == IF key \in DOMAIN item.d THEN item.d[key] ELSE None

Range(s) == {s[i] : i \in DOMAIN s}

SeqsUpTo(S, n) == UNION {[1..k -> S] : k \in 0..n}

(***************************************************************************)
(* Bounds of the checked instances.                                        *)
(***************************************************************************)
MaxFiles == 2
MaxHooks == 2
MaxLines == 3
MaxRecords == 2
MaxArgs == 4

FileNames == {"a.py", "b.py"}
HookIds == {"ruff", "black"}

(***************************************************************************)
(* Paths.  A path is the string str(path) that ends up in an argument      *)
(* vector; Join is pathlib's "/" for the names the launcher joins.         *)
(***************************************************************************)
YAML == ".pre-commit-config.yaml"
YML == ".pre-commit-config.yml"
OVERRIDE == ".pre-commit-config.override.yaml"
GIT == ".git"
VENV == ".venv"
BIN_PYTHON == ".venv/bin/python"
WIN_PYTHON == ".venv/Scripts/python.exe"

Join(root, name) ==
    CASE root = "work" /\ name = YAML -> "work/.pre-commit-config.yaml"
      [] root = "work" /\ name = YML -> "work/.pre-commit-config.yml"
      [] root = "work" /\ name = OVERRIDE -> "work/.pre-commit-config.override.yaml"
      [] root = "work" /\ name = BIN_PYTHON -> "work/.venv/bin/python"
      [] root = "work" /\ name = WIN_PYTHON -> "work/.venv/Scripts/python.exe"
      [] root = "src" /\ name = OVERRIDE -> "src/.pre-commit-config.override.yaml"
      [] OTHER -> "other"

(***************************************************************************)
(* LintArgs (launcher.py 28-52).                                           *)
(***************************************************************************)
LintArgs(cy, rp, af, fc, sh, sd, vp) ==
    [config_yaml |-> cy, repo_path |-> rp, all_files |-> af, files_to_check |-> fc,
     select_hooks |-> sh, show_diff |-> sd, relative_virtualenv_path |-> vp]

\* HookResult (launcher.py 73-79); unset fields keep their defaults.
HookResult(id, repo, rev, status, files, raw) ==
    [id |-> id, repo |-> repo, rev |-> rev, status |-> status, files |-> files, raw |-> raw]

(***************************************************************************)
(* _build_base_cmd (launcher.py 211-230).                                  *)
(***************************************************************************)
AppendIf(cmd, cond, extra) == IF cond THEN cmd \o extra ELSE cmd

HookFilterMulti(req) ==
    IF Truthy(req.select_hooks) THEN req.select_hooks.xs ELSE <<>>

HookFilter(req) ==
    IF Truthy(req.select_hooks) /\ Len(req.select_hooks.xs) = 1
    THEN <<req.select_hooks.xs[1]>>
    ELSE <<>>

AllFilesFlagLoose(req) == IF req.all_files THEN <<"--all-files">> ELSE <<>>

AllFilesFlag(req) ==
    IF req.all_files /\ ~Truthy(req.files_to_check) THEN <<"--all-files">> ELSE <<>>

_build_base_cmd(cfg_path, req) ==
    LET c0 == <<"pre-commit", "run", "--config", cfg_path>>
        c1 == AppendIf(c0, req.show_diff, <<"--show-diff-on-failure">>)
        c2 == c1 \o HookFilter(req)
        c3 == c2 \o AllFilesFlag(req)
    IN  AppendIf(c3, Truthy(req.files_to_check), <<"--files">> \o req.files_to_check.xs)

(***************************************************************************)
(* _run (launcher.py 95-144): the argument vector actually executed.       *)
(* virtualenv_path is None or the Str of the configured relative path;     *)
(* files are the names present in the working copy.                        *)
(***************************************************************************)
VenvPythonBinOnly(files) == BIN_PYTHON

VenvPython(files) == IF BIN_PYTHON \in files THEN BIN_PYTHON ELSE WIN_PYTHON

RunArgv(cmd, virtualenv_path, files) ==
    IF Truthy(virtualenv_path) /\ virtualenv_path.s \in files
         /\ VenvPython(files) \in files
    THEN LET py == Join("work", VenvPython(files))
         IN  IF cmd[1] = "pre-commit"
             THEN <<py, "-m", "pre_commit">> \o Tail(cmd)
             ELSE IF Len(cmd) >= 3 /\ cmd[1] = "python" /\ cmd[2] = "-m"
                       /\ cmd[3] = "pre_commit"
             THEN <<py, "-m", "pre_commit">> \o SubSeq(cmd, 4, Len(cmd))
             ELSE IF Len(cmd) >= 2 /\ cmd[1] = "python" /\ cmd[2] = "-m"
             THEN <<py>> \o Tail(cmd)
             ELSE cmd
    ELSE cmd

(***************************************************************************)
(* _find_repo_config (launcher.py 177-193): None, or the Str of the path.  *)
(***************************************************************************)
FindYmlFirst(files) ==
    IF YML \in files THEN Str(Join("work", YML))
    ELSE IF YAML \in files THEN Str(Join("work", YAML))
    ELSE None

_find_repo_config(files) ==
    IF YAML \in files THEN Str(Join("work", YAML))
    ELSE IF YML \in files THEN Str(Join("work", YML))
    ELSE None

(***************************************************************************)
(* Text.  A text is a sequence of tokens: "\n", the blanks " " and "\t",   *)
(* the marker "-", the dot ".", and words (maximal runs of other           *)
(* characters, kept whole).                                                *)
(***************************************************************************)
NL == "\n"
IsSpace(c) == c \in {" ", "\t", NL}
IsMarker(c) == c = "-" \/ IsSpace(c)

\* str.lower() on the words of the alphabet.
Lower(w) ==
    CASE w \in {"Passed", "PASSED", "passed"} -> "passed"
      [] w \in {"Failed", "FAILED", "failed"} -> "failed"
      [] w \in {"Skipped", "SKIPPED", "skipped"} -> "skipped"
      [] w = "Error" -> "error"
      [] OTHER -> w

\* str.splitlines(): the lines without their terminators; a final
\* terminator opens no further line.
RECURSIVE SplitLines(_)
SplitLines(text) ==
    IF text = <<>> THEN <<>>
    ELSE LET brk == {i \in 1..Len(text) : text[i] = NL}
         IN  IF brk = {} THEN <<text>>
             ELSE LET i == CHOOSE k \in brk : \A m \in brk : k <= m
                  IN  <<SubSeq(text, 1, i - 1)>> \o SplitLines(SubSeq(text, i + 1, Len(text)))

\* str.strip()
RECURSIVE Strip(_)
Strip(s) ==
    IF s = <<>> THEN s
    ELSE IF IsSpace(s[1]) THEN Strip(Tail(s))
    ELSE IF IsSpace(s[Len(s)]) THEN Strip(SubSeq(s, 1, Len(s) - 1))
    ELSE s

IsDot(c) == c = "."
NonSpace(c) == ~IsSpace(c)
AllMarkers(s, lo, hi) == \A x \in lo..hi : IsMarker(s[x])
AllNonSpace(s, lo, hi) == \A x \in lo..hi : NonSpace(s[x])
AllSpace(s, lo, hi) == \A x \in lo..hi : IsSpace(s[x])
AllDots(s, lo, hi) == \A x \in lo..hi : IsDot(s[x])

(***************************************************************************)
(* _parse_text_summary (launcher.py 233-263).                              *)
(*                                                                         *)
(* re.match(r"^(-|\s)*(\S+)\s+\.+\s+(Passed|Failed|Skipped)$", s, I):      *)
(* a split <<i, j, k, l>> of s matches when s[1..i] are markers, s[i+1..j] *)
(* is the identifier, s[j+1..k] blanks, s[k+1..l] dots, s[l+1..n-1] blanks *)
(* and s[n] the status word.  Every quantifier is greedy, so the match     *)
(* found is the one with the longest s[1..i], then the longest identifier. *)
(***************************************************************************)
StatusWord(w) == Lower(w) \in {"passed", "failed", "skipped"}

Splits(s) ==
    LET n == Len(s)
    IN  IF n = 0 \/ ~StatusWord(s[n]) THEN {}
        ELSE UNION {UNION {UNION {
                {<<i, j, k, l>> :
                    l \in {l \in (k + 1)..(n - 2) :
                              AllDots(s, k + 1, l) /\ AllSpace(s, l + 1, n - 1)}} :
                    k \in {k \in (j + 1)..(n - 2) : AllSpace(s, j + 1, k)}} :
                    j \in {j \in (i + 1)..(n - 2) : AllNonSpace(s, i + 1, j)}} :
                    i \in {i \in 0..(n - 2) : AllMarkers(s, 1, i)}}

Before(p, q) == p[1] > q[1] \/ (p[1] = q[1] /\ p[2] >= q[2])

\* The match object: group(2) and group(3), or no match.
NoMatch == [matched |-> FALSE]
ReMatch(s) ==
    IF Splits(s) = {} THEN NoMatch
    ELSE LET q == CHOOSE p \in Splits(s) : \A r \in Splits(s) : Before(p, r)
         IN  [matched |-> TRUE, group2 |-> SubSeq(s, q[1] + 1, q[2]), group3 |-> s[Len(s)]]

\* An identifier taken from a text: the tokens of the matched run.
Toks(k) == [t |-> "toks", k |-> k]

TextStatus(status) ==
    IF status = "passed" THEN "passed"
    ELSE IF status = "failed" THEN "failed"
    ELSE "skipped"

\* results[hook_id] = value on an insertion-ordered dict, kept as the
\* sequence of its values: an existing key keeps its place.
DictSetMoveToEnd(results, value) ==
    SelectSeq(results, LAMBDA r : r.id # value.id) \o <<value>>

DictSet(results, value) ==
    IF \E p \in DOMAIN results : results[p].id = value.id
    THEN [p \in DOMAIN results |->
             IF results[p].id = value.id THEN value ELSE results[p]]
    ELSE Append(results, value)

\* One iteration of the loop over out.splitlines().
ParseLine(results, line) ==
    LET m == ReMatch(Strip(line))
    IN  IF m.matched
        THEN DictSet(results,
                     HookResult(Toks(m.group2), None, None,
                                TextStatus(Lower(m.group3)), None, None))
        ELSE results

RECURSIVE ParseLines(_, _)
ParseLines(results, lines) ==
    IF lines = <<>> THEN results
    ELSE ParseLines(ParseLine(results, Head(lines)), Tail(lines))

_parse_text_summary(out) == ParseLines(<<>>, SplitLines(out))

(***************************************************************************)
(* Captured stdout: its text, and what json.loads makes of that text       *)
(* (Invalid when it raises JSONDecodeError).                               *)
(***************************************************************************)
Invalid == [t |-> "invalid"]
Stdout(text, json) == [text |-> text, json |-> json]
EmptyStdout == Stdout(<<>>, Invalid)

\* stdout.strip() is empty
Blank(text) == \A i \in DOMAIN text : IsSpace(text[i])

JsonLoads(stdout) == stdout.json

(***************************************************************************)
(* The structured branch (launcher.py 326-350).                            *)
(***************************************************************************)
\* pydantic's validation of the HookResult fields (launcher.py 73-79).
ValidOptStr(v) == v.t \in {"none", "str"}
ValidOptStrList(v) ==
    v.t = "none" \/ (v.t = "list" /\ \A i \in DOMAIN v.xs : v.xs[i].t = "str")

\* x or None
OrNone(v) == IF Truthy(v) THEN v ELSE None

JsonStatusAsIs(item) ==
    IF Get(item, "status").t = "str" THEN Get(item, "status").s ELSE "unknown"

JsonStatus(item) ==
    IF Get(item, "status") = Str("passed") THEN "passed"
    ELSE IF Get(item, "status") = Str("failed") THEN "failed"
    ELSE IF Get(item, "status") = Str("skipped") THEN "skipped"
    ELSE "unknown"

\* What iterating payload.get("results", []) yields, as a List; Invalid when
\* the value is not iterable.  A str yields its characters, a dict its keys.
Results(payload) ==
    LET r == IF "results" \in DOMAIN payload.d THEN payload.d["results"] ELSE List(<<>>)
    IN  CASE r.t = "list" -> r
          [] r.t = "str" -> IF r.s = "" THEN List(<<>>) ELSE List(<<Str("c")>>)
          [] r.t = "dict" -> IF DOMAIN r.d = {} THEN List(<<>>) ELSE List(<<Str("k")>>)
          [] OTHER -> Invalid

\* The loop body raises on an item without .get, or one pydantic rejects.
ItemOk(item) ==
    /\ item.t = "dict"
    /\ ValidOptStr(Get(item, "hook_id"))
    /\ ValidOptStr(Get(item, "repo"))
    /\ ValidOptStr(Get(item, "rev"))
    /\ ValidOptStrList(OrNone(Get(item, "files")))

FromItem(item) ==
    HookResult(Get(item, "hook_id"), Get(item, "repo"), Get(item, "rev"),
               JsonStatus(item), OrNone(Get(item, "files")), item)

\* Whether the try block of 327-347 completes without an exception.
StructuredOk(stdout) ==
    LET payload == IF ~Blank(stdout.text) THEN JsonLoads(stdout) ELSE Dict(<<>>)
    IN  /\ payload # Invalid
        /\ payload.t = "dict"
        /\ Results(payload) # Invalid
        /\ \A i \in DOMAIN Results(payload).xs : ItemOk(Results(payload).xs[i])

StructuredHooks(stdout) ==
    LET payload == IF ~Blank(stdout.text) THEN JsonLoads(stdout) ELSE Dict(<<>>)
    IN  [i \in DOMAIN Results(payload).xs |-> FromItem(Results(payload).xs[i])]

\* hooks after lines 326-350.
ParseHooks(stdout) ==
    IF StructuredOk(stdout) THEN StructuredHooks(stdout)
    ELSE _parse_text_summary(stdout.text)

(***************************************************************************)
(* The filesystem: the caller's repository "src", the two temporary        *)
(* directories "tmp" and "cache" of tempfile.mkdtemp, and "work", the      *)
(* directory tmp/work.  A directory is whether it exists and the names in  *)
(* it.                                                                     *)
(***************************************************************************)
Roots == {"src", "tmp", "work", "cache"}
Dir(e, names) == [exists |-> e, files |-> names]
NoDir == Dir(FALSE, {})

Mkdtemp(f, d) == [f EXCEPT ![d] = Dir(TRUE, {})]
\* Path.mkdir(parents=True, exist_ok=True)
Mkdir(f, d) == IF f[d].exists THEN f ELSE [f EXCEPT ![d] = Dir(TRUE, {})]
\* shutil.copytree(src, dst, dirs_exist_ok=True), having copied the names in copied
Copytree(f, dst, copied) == [f EXCEPT ![dst] = Dir(TRUE, f[dst].files \cup copied)]
WriteText(f, d, name) == [f EXCEPT ![d] = Dir(TRUE, f[d].files \cup {name})]
\* shutil.rmtree(d, ignore_errors=True): removed is whether the removal went
\* through; an error is swallowed and leaves the directory.  tmp holds work.
Rmtree(f, d, removed) ==
    IF ~removed THEN f
    ELSE IF d = "tmp" THEN [f EXCEPT !["tmp"] = NoDir, !["work"] = NoDir]
    ELSE [f EXCEPT ![d] = NoDir]

\* workdir = tmp / "work" (launcher.py 282)
WorkdirInPlace == "src"
Workdir == "work"

\* _write_override_config (launcher.py 196-208): the file written and its path.
_write_override_config(f, root) == WriteText(f, root, OVERRIDE)
OverridePath(root) == Str(Join(root, OVERRIDE))

(***************************************************************************)
(* Outcomes of an invocation and LintResponse (launcher.py 87-92).         *)
(***************************************************************************)
NoOutcome == [kind |-> "none"]
Raised(exc) == [kind |-> "raised", exc |-> exc]
Returned(resp) == [kind |-> "returned", response |-> resp]

\* summary.duration_sec, a reading of the wall clock, is left out.
LintResponse(ok, exit_code, hks, out, err) ==
    [ok |-> ok, exit_code |-> exit_code, hooks |-> hks, stdout |-> out, stderr |-> err]

MissingConfigMsg == "Repository does not have a .pre-commit-config.yaml(.yml) file."
MissingConfigResponse == LintResponse(FALSE, 2, <<>>, EmptyStdout, MissingConfigMsg)

VARIABLES
    req,      \* the LintArgs of the invocation
    fs,       \* the filesystem
    src0,     \* the caller's repository as it was when the invocation began
    pc,       \* the position in lint_with_pre_commit
    procs,    \* the argument vectors handed to subprocess.run, in order
    writes,   \* the directories the orchestrator created, wrote into or removed
    cfg_path, \* the resolved configuration path
    cmd,      \* the command built by _build_base_cmd
    stdout,   \* the captured stdout of the lint process
    hooks,    \* the parsed hook list
    outcome,  \* what the invocation returns or raises
    rm        \* which removals the teardown attempted, and how each ended

vars == <<req, fs, src0, pc, procs, writes, cfg_path, cmd, stdout, hooks, outcome, rm>>

NoRm == [tmp |-> "none", cache |-> "none"]

(***************************************************************************)
(* Spec: one invocation of lint_with_pre_commit (launcher.py 266-362).     *)
(***************************************************************************)
\* The repositories an invocation may be pointed at: any of .git and the two
\* configuration files, with or without a virtual environment whose
\* interpreter sits at bin/python, Scripts/python.exe, both or neither.
VenvLayouts == {{}, {VENV}, {VENV, BIN_PYTHON}, {VENV, WIN_PYTHON},
                {VENV, BIN_PYTHON, WIN_PYTHON}}
RepoContents == {a \cup b : a \in SUBSET {GIT, YAML, YML}, b \in VenvLayouts}
Repos == {NoDir} \cup {Dir(TRUE, c) : c \in RepoContents}

Requests ==
    {LintArgs(cy, "src", af, fc, sh, sd, vp) :
        cy \in {None, Str(""), Str("repos: []")},
        af \in BOOLEAN,
        fc \in {None, List(<<"a.py">>)},
        sh \in {None, List(<<"ruff">>)},
        sd \in BOOLEAN,
        vp \in {None, Str(VENV)}}

\* What the lint process may print.
GoodRecord == Dict([hook_id |-> Str("ruff"), status |-> Str("passed")])
BadRecord == Dict([hook_id |-> Num(7), status |-> Str("failed")])
JsonText == <<"{json}">>
LintStdouts ==
    {EmptyStdout,
     Stdout(<<"ruff", " ", ".", " ", "Passed", NL, "black", " ", ".", " ", "Failed", NL>>,
            Invalid),
     Stdout(JsonText, Dict([results |-> List(<<GoodRecord>>)])),
     Stdout(JsonText, Dict([results |-> List(<<GoodRecord, BadRecord>>)])),
     Stdout(JsonText, List(<<GoodRecord>>))}

Idle ==
    /\ procs = <<>> /\ writes = <<>> /\ cfg_path = None /\ cmd = <<>>
    /\ stdout = EmptyStdout /\ hooks = <<>> /\ outcome = NoOutcome /\ rm = NoRm

Init ==
    /\ req \in Requests
    /\ \E r \in Repos : fs = [d \in Roots |-> IF d = "src" THEN r ELSE NoDir]
    /\ src0 = fs["src"]
    /\ pc = "start"
    /\ Idle

Touch(op, root) == writes' = Append(writes, [op |-> op, root |-> root])

\* Leave the try block with an exception or a return value: the finally
\* clause runs next.
Leave(o) == outcome' = o /\ pc' = "finally"

\* tmp = Path(tempfile.mkdtemp(...)) (278); mkdtemp may fail with OSError,
\* which is raised outside the try block.
MkdtempTmp ==
    /\ pc = "start"
    /\ \/ /\ fs' = Mkdtemp(fs, "tmp") /\ Touch("mkdtemp", "tmp")
          /\ pc' = "mkcache" /\ UNCHANGED outcome
       \/ /\ outcome' = Raised("OSError") /\ pc' = "done"
          /\ UNCHANGED <<fs, writes>>
    /\ UNCHANGED <<req, src0, procs, cfg_path, cmd, stdout, hooks, rm>>

\* cache = Path(tempfile.mkdtemp(...)) (279), still outside the try block.
MkdtempCache ==
    /\ pc = "mkcache"
    /\ \/ /\ fs' = Mkdtemp(fs, "cache") /\ Touch("mkdtemp", "cache")
          /\ pc' = "mkwork" /\ UNCHANGED outcome
       \/ /\ outcome' = Raised("OSError") /\ pc' = "done"
          /\ UNCHANGED <<fs, writes>>
    /\ UNCHANGED <<req, src0, procs, cfg_path, cmd, stdout, hooks, rm>>

\* workdir.mkdir(parents=True, exist_ok=True) (282-283)
MkWorkdir ==
    /\ pc = "mkwork"
    /\ fs' = Mkdir(fs, Workdir) /\ Touch("mkdir", Workdir)
    /\ pc' = "check"
    /\ UNCHANGED <<req, src0, procs, cfg_path, cmd, stdout, hooks, outcome, rm>>

\* if not src.exists(): raise ValueError (286-288)
CheckSrc ==
    /\ pc = "check"
    /\ IF ~fs[req.repo_path].exists
       THEN Leave(Raised("ValueError"))
       ELSE pc' = "copy" /\ UNCHANGED outcome
    /\ UNCHANGED <<req, fs, src0, procs, writes, cfg_path, cmd, stdout, hooks, rm>>

\* shutil.copytree(src, workdir, dirs_exist_ok=True) (289); it raises
\* (shutil.Error, OSError) when a file cannot be read or written, having
\* copied what it could.
CopyRepo ==
    /\ pc = "copy"
    /\ \/ /\ fs' = Copytree(fs, Workdir, fs[req.repo_path].files)
          /\ pc' = "git_init" /\ UNCHANGED outcome
       \/ /\ \E copied \in {{}, fs[req.repo_path].files} :
                fs' = Copytree(fs, Workdir, copied)
          /\ Leave(Raised("OSError"))
    /\ Touch("copytree", Workdir)
    /\ UNCHANGED <<req, src0, procs, cfg_path, cmd, stdout, hooks, rm>>

\* virtualenv_path (291-294): None, or the path below the working copy.
VirtualenvPath(r) ==
    IF Truthy(r.relative_virtualenv_path) THEN r.relative_virtualenv_path ELSE None

\* subprocess.run(cmd, cwd=workdir, ...) through _run: the vector executed
\* is appended to procs.
Launch(argv) == procs' = Append(procs, RunArgv(argv, VirtualenvPath(req), fs[Workdir].files))

\* The commit a successful "git commit" leaves in the repository.
COMMIT == ".git/refs/heads/master"

\* _ensure_git_repo (147-174), first command.  Nothing runs when .git is
\* there.  subprocess.run raises when the program cannot be started; a
\* nonzero exit code is not looked at.
GitInit ==
    /\ pc = "git_init"
    /\ IF GIT \in fs[Workdir].files
       THEN pc' = "config" /\ UNCHANGED <<fs, procs, writes, outcome>>
       ELSE /\ Launch(<<"git", "init">>)
            /\ \/ /\ fs' = WriteText(fs, Workdir, GIT) /\ Touch("git", Workdir)
                  /\ pc' = "git_add" /\ UNCHANGED outcome
               \/ pc' = "git_add" /\ UNCHANGED <<fs, writes, outcome>>
               \/ Leave(Raised("FileNotFoundError")) /\ UNCHANGED <<fs, writes>>
    /\ UNCHANGED <<req, src0, cfg_path, cmd, stdout, hooks, rm>>

\* git add -A
GitAdd ==
    /\ pc = "git_add"
    /\ Launch(<<"git", "add", "-A">>)
    /\ \/ pc' = "git_commit" /\ UNCHANGED outcome
       \/ Leave(Raised("FileNotFoundError"))
    /\ UNCHANGED <<req, fs, src0, writes, cfg_path, cmd, stdout, hooks, rm>>

\* git commit --allow-empty -m init: it can only succeed in a repository.
GitCommit ==
    /\ pc = "git_commit"
    /\ Launch(<<"git", "commit", "--allow-empty", "-m", "init">>)
    /\ \/ /\ GIT \in fs[Workdir].files
          /\ fs' = WriteText(fs, Workdir, COMMIT) /\ Touch("git", Workdir)
          /\ pc' = "config" /\ UNCHANGED outcome
       \/ pc' = "config" /\ UNCHANGED <<fs, writes, outcome>>
       \/ Leave(Raised("FileNotFoundError")) /\ UNCHANGED <<fs, writes>>
    /\ UNCHANGED <<req, src0, cfg_path, cmd, stdout, hooks, rm>>

\* if request.config_yaml: cfg_path = _write_override_config(...) (300-301);
\* write_text raises OSError when the file cannot be written.
OverrideGiven(r) == Truthy(r.config_yaml)

ResolveOverride ==
    /\ pc = "config"
    /\ OverrideGiven(req)
    /\ \/ /\ fs' = _write_override_config(fs, Workdir) /\ Touch("write_text", Workdir)
          /\ cfg_path' = OverridePath(Workdir)
          /\ pc' = "lint" /\ UNCHANGED outcome
       \/ /\ Leave(Raised("OSError")) /\ UNCHANGED <<fs, writes, cfg_path>>
    /\ UNCHANGED <<req, src0, procs, cmd, stdout, hooks, rm>>

\* else: cfg_in_repo = _find_repo_config(workdir); without one, the
\* exit-code-2 response is returned (302-312).
ResolveRepoConfig ==
    /\ pc = "config"
    /\ ~OverrideGiven(req)
    /\ LET cfg_in_repo == _find_repo_config(fs[Workdir].files)
       IN  IF ~Truthy(cfg_in_repo)
           THEN Leave(Returned(MissingConfigResponse)) /\ UNCHANGED cfg_path
           ELSE cfg_path' = cfg_in_repo /\ pc' = "lint" /\ UNCHANGED outcome
    /\ UNCHANGED <<req, fs, src0, procs, writes, cmd, stdout, hooks, rm>>

\* The lint run and the parsing of its output (314-358).  The process fills
\* the cache directory named by PRE_COMMIT_HOME.
ReturnCodes == {0, 1}
LintStderrs == {"", "hook failed"}

RunLint ==
    /\ pc = "lint"
    /\ cmd' = _build_base_cmd(cfg_path.s, req)
    /\ Launch(cmd')
    /\ \/ \E rc \in ReturnCodes, out \in LintStdouts, err \in LintStderrs :
            /\ stdout' = out
            /\ hooks' = ParseHooks(out)
            /\ fs' = WriteText(fs, "cache", "db.db")
            /\ Leave(Returned(LintResponse(rc = 0, rc, hooks', out, err)))
       \/ /\ Leave(Raised("FileNotFoundError"))
          /\ UNCHANGED <<fs, stdout, hooks>>
    /\ UNCHANGED <<req, src0, writes, cfg_path, rm>>

\* finally: shutil.rmtree(tmp, ignore_errors=True);
\*          shutil.rmtree(cache, ignore_errors=True) (360-362)
TeardownOnReturnOnly(o) == o.kind = "returned"
TeardownRuns(o) == TRUE

RmResult(removed) == IF removed THEN "removed" ELSE "failed"

Teardown ==
    /\ pc = "finally"
    /\ IF TeardownRuns(outcome)
       THEN \E t \in BOOLEAN, c \in BOOLEAN :
               /\ fs' = Rmtree(Rmtree(fs, "tmp", t), "cache", c)
               /\ rm' = [tmp |-> RmResult(t), cache |-> RmResult(c)]
               /\ writes' = writes \o <<[op |-> "rmtree", root |-> "tmp"],
                                        [op |-> "rmtree", root |-> "cache"]>>
       ELSE UNCHANGED <<fs, rm, writes>>
    /\ pc' = "done"
    /\ UNCHANGED <<req, src0, procs, cfg_path, cmd, stdout, hooks, outcome>>

Next ==
    \/ MkdtempTmp \/ MkdtempCache \/ MkWorkdir \/ CheckSrc \/ CopyRepo
    \/ GitInit \/ GitAdd \/ GitCommit
    \/ ResolveOverride \/ ResolveRepoConfig \/ RunLint \/ Teardown

Spec == Init /\ [][Next]_vars

(***************************************************************************)
(* Properties of the orchestrator, checked under Spec.                     *)
(***************************************************************************)
Did(op, root) == \E i \in DOMAIN writes : writes[i] = [op |-> op, root |-> root]
BothCreated == Did("mkdtemp", "tmp") /\ Did("mkdtemp", "cache")
IsLint(argv) == argv[2] = "run" \/ (Len(argv) >= 4 /\ argv[3] = "pre_commit")
LintStarted == \E i \in DOMAIN procs : IsLint(procs[i])

C2_ErrorBeforeSandbox ==
    (pc = "finally" /\ outcome = Raised("ValueError")) =>
        /\ ~fs["tmp"].exists /\ ~fs["cache"].exists /\ ~fs["work"].exists
        /\ procs = <<>>

\* C3 as stated: a request with an existing repo_path, no inline override
\* and neither configuration file ends in the returned exit-code-2 response,
\* and no lint process is started for it.
C3_MissingConfigResponse ==
    (/\ pc = "done" /\ BothCreated
     /\ src0.exists /\ req.config_yaml = None
     /\ YAML \notin src0.files /\ YML \notin src0.files)
    => (outcome = Returned(MissingConfigResponse) /\ ~LintStarted)

\* C4 as stated: an invocation whose repo_path exists ends in a returned
\* LintResponse, never in an exception.
C4_NeverRaises ==
    (pc = "done" /\ BothCreated /\ src0.exists) => outcome.kind = "returned"

\* C5: the caller's repository is as it was at the start of the invocation,
\* and everything the orchestrator created, wrote or removed lies in the
\* invocation's own temporary directories.
OwnDirs == {"tmp", "work", "cache"}
C5_SourceUntouched ==
    /\ fs["src"] = src0
    /\ \A i \in DOMAIN writes : writes[i].root \in OwnDirs

\* A finished invocation that copied the repository, bootstrapped git, wrote
\* the override file, ran the lint process and removed its directories.
C5_Witness ==
    /\ pc = "done" /\ outcome.kind = "returned" /\ LintStarted
    /\ Did("copytree", "work") /\ Did("git", "work") /\ Did("write_text", "work")
    /\ rm = [tmp |-> "removed", cache |-> "removed"]
    /\ src0.files # {}

\* The configuration path in the built command: the argument after the one
\* "--config".
ConfigArgs(c) == {i \in DOMAIN c : c[i] = "--config"}
OneConfig(c, path) == ConfigArgs(c) = {3} /\ c[4] = path
OnDisk(files) ==
    IF YAML \in files THEN Join("work", YAML) ELSE Join("work", YML)

\* C6 as stated: the command names exactly one configuration path: the
\* freshly written override file whenever config_yaml is set, otherwise
\* .pre-commit-config.yaml if it exists and the .yml file if it does not.
C6_OverrideWheneverSet ==
    (pc = "finally" /\ cmd # <<>>) =>
        IF req.config_yaml # None
        THEN OneConfig(cmd, Join("work", OVERRIDE)) /\ Did("write_text", "work")
        ELSE OneConfig(cmd, OnDisk(fs["work"].files))

\* C6, amended: the command names exactly one configuration path: the
\* freshly written override file whenever config_yaml is a non-empty text,
\* whatever files are on disk; otherwise (config_yaml absent or empty)
\* .pre-commit-config.yaml if it exists and the .yml file only if it does not.
C6_ConfigPrecedence ==
    (pc = "finally" /\ cmd # <<>>) =>
        IF req.config_yaml \notin {None, Str("")}
        THEN /\ OneConfig(cmd, Join("work", OVERRIDE)) /\ Did("write_text", "work")
             /\ OVERRIDE \in fs["work"].files
        ELSE /\ OneConfig(cmd, OnDisk(fs["work"].files))
             /\ {YAML, YML} \cap fs["work"].files # {}
             /\ ~Did("write_text", "work")

\* A command built with override text given while both on-disk files exist.
C6_Witness ==
    /\ pc = "finally" /\ cmd # <<>>
    /\ req.config_yaml = Str("repos: []")
    /\ {YAML, YML} \subseteq fs["work"].files
    /\ cmd[4] = Join("work", OVERRIDE)

(***************************************************************************)
(* SpecCmd: _build_base_cmd applied to every request of a bounded set.     *)
(***************************************************************************)
Unused(p) ==
    /\ fs = [d \in Roots |-> NoDir] /\ src0 = NoDir /\ pc = p
    /\ procs = <<>> /\ writes = <<>> /\ outcome = NoOutcome /\ rm = NoRm

OptLists(S, n) == {None} \cup {List(xs) : xs \in SeqsUpTo(S, n)}

CmdRequests ==
    {LintArgs(None, "src", af, fc, sh, sd, None) :
        af \in BOOLEAN,
        fc \in OptLists(FileNames, MaxFiles),
        sh \in OptLists(HookIds, MaxHooks),
        sd \in BOOLEAN}

InitCmd ==
    /\ Unused("cmd_in")
    /\ req \in CmdRequests
    /\ cfg_path \in {Str(Join("work", YAML)), OverridePath("work")}
    /\ cmd = <<>> /\ stdout = EmptyStdout /\ hooks = <<>>

BuildCmd ==
    /\ pc = "cmd_in"
    /\ cmd' = _build_base_cmd(cfg_path.s, req)
    /\ pc' = "cmd_out"
    /\ UNCHANGED <<req, fs, src0, procs, writes, cfg_path, stdout, hooks, outcome, rm>>

NextCmd == BuildCmd

SpecCmd == InitCmd /\ [][NextCmd]_vars

FilesGiven(r) == r.files_to_check # None /\ r.files_to_check.xs # <<>>

\* C7: with a non-empty files_to_check the command has "--files" followed by
\* exactly the listed files, to its end, and no "--all-files", whatever
\* all_files is; "--all-files" is in the command exactly when files_to_check
\* is absent or empty and all_files is true.
C7_FilesOverAllFiles ==
    pc = "cmd_out" =>
        /\ FilesGiven(req) =>
              /\ \E i \in DOMAIN cmd :
                    /\ cmd[i] = "--files"
                    /\ SubSeq(cmd, i + 1, Len(cmd)) = req.files_to_check.xs
                    /\ \A k \in DOMAIN cmd : cmd[k] = "--files" => k = i
              /\ "--all-files" \notin Range(cmd)
        /\ "--all-files" \in Range(cmd) <=> (~FilesGiven(req) /\ req.all_files)

\* A command built for two listed files with all_files set.
C7_Witness ==
    /\ pc = "cmd_out" /\ req.all_files
    /\ req.files_to_check = List(<<"a.py", "b.py">>)
    /\ SubSeq(cmd, Len(cmd) - 2, Len(cmd)) = <<"--files", "a.py", "b.py">>

\* The positional arguments of a pre-commit run command: what follows
\* "pre-commit run" and is neither an option, nor the value of --config, nor
\* part of the --files list.
Options == {"--config", "--show-diff-on-failure", "--all-files", "--files"}
FilesAt(c) == {i \in DOMAIN c : c[i] = "--files"}
Positional(c) ==
    {i \in DOMAIN c :
        /\ i > 2 /\ c[i] \notin Options /\ c[i - 1] # "--config"
        /\ \A k \in FilesAt(c) : i < k}

\* C8: with select_hooks absent, empty or of two or more identifiers the
\* command has no positional hook filter; with exactly one identifier it has
\* that identifier, once, as its only positional argument, before any
\* "--files" list.
C8_SingleHookFilter ==
    pc = "cmd_out" =>
        IF req.select_hooks # None /\ Len(req.select_hooks.xs) = 1
        THEN \E i \in DOMAIN cmd :
                /\ Positional(cmd) = {i}
                /\ cmd[i] = req.select_hooks.xs[1]
                /\ \A k \in DOMAIN cmd :
                      cmd[k] = req.select_hooks.xs[1] => (k = i \/ \E f \in FilesAt(cmd) : f < k)
        ELSE Positional(cmd) = {}

\* A command built for one selected hook and a file list.
C8_Witness ==
    /\ pc = "cmd_out"
    /\ req.select_hooks = List(<<"ruff">>) /\ req.files_to_check = List(<<"a.py">>)
    /\ req.show_diff
    /\ cmd[6] = "ruff" /\ cmd[7] = "--files"

(***************************************************************************)
(* SpecText: _parse_text_summary applied to every text of up to MaxLines   *)
(* lines drawn from TextLines.                                             *)
(***************************************************************************)
TextLines ==
    {<<"black", " ", ".", " ", "Passed">>,
     <<"black", " ", ".", ".", " ", "FAILED">>,
     <<"ruff", " ", ".", " ", "failed">>,
     <<"-", " ", "ruff", "\t", ".", " ", "Skipped">>,
     <<" ", "-", "black", " ", ".", " ", "skipped", " ">>,
     <<"-", " ", ".", " ", "Passed">>,
     <<"black", ".", "Passed">>,
     <<"ruff", " ", ".", " ", "Error">>,
     <<"black", " ", "ruff", " ", ".", " ", "Passed">>,
     <<>>}

\* The lines, each with its terminator.
RECURSIVE JoinLines(_)
JoinLines(lines) ==
    IF lines = <<>> THEN <<>> ELSE Head(lines) \o <<NL>> \o JoinLines(Tail(lines))

InitText ==
    /\ Unused("text_in")
    /\ req = LintArgs(None, "src", TRUE, None, None, TRUE, None)
    /\ cfg_path = None /\ cmd = <<>> /\ hooks = <<>>
    /\ \E lines \in SeqsUpTo(TextLines, MaxLines) :
          stdout = Stdout(JoinLines(lines), Invalid)

ParseText ==
    /\ pc = "text_in"
    /\ hooks' = _parse_text_summary(stdout.text)
    /\ pc' = "text_out"
    /\ UNCHANGED <<req, fs, src0, procs, writes, cfg_path, cmd, stdout, outcome, rm>>

NextText == ParseText

SpecText == InitText /\ [][NextText]_vars

\* The lines of stdout that match the pattern, and what each says.
OutLines == SplitLines(stdout.text)
LineMatch(i) == ReMatch(Strip(OutLines[i]))
Matching == {i \in DOMAIN OutLines : LineMatch(i).matched}
LineId(i) == Toks(LineMatch(i).group2)
FirstLine(id) ==
    CHOOSE i \in Matching : LineId(i) = id /\ \A k \in Matching : LineId(k) = id => i <= k

\* C9: the fallback yields exactly one HookResult per distinct identifier
\* among the matching lines, ordered by each identifier's first matching
\* line, each with the lowercased status word of a matching line of its
\* identifier; without a matching line the list is empty.
C9_TextSummary ==
    pc = "text_out" =>
        /\ \A i \in Matching : \E p \in DOMAIN hooks : hooks[p].id = LineId(i)
        /\ \A p \in DOMAIN hooks :
              \E i \in Matching :
                 /\ hooks[p].id = LineId(i)
                 /\ hooks[p].status = Lower(LineMatch(i).group3)
        /\ \A p, q \in DOMAIN hooks :
              p < q => /\ hooks[p].id # hooks[q].id
                       /\ FirstLine(hooks[p].id) < FirstLine(hooks[q].id)
        /\ Matching = {} => hooks = <<>>

\* black passes, ruff fails, black is reported again as skipped: two
\* entries, black first.
C9_Witness ==
    /\ pc = "text_out"
    /\ Matching = {1, 2, 3}
    /\ LineId(1) = Toks(<<"black">>) /\ LineId(2) = Toks(<<"ruff">>)
    /\ LineId(3) = Toks(<<"black">>)
    /\ Lower(LineMatch(1).group3) = "passed" /\ Lower(LineMatch(3).group3) = "skipped"
    /\ Len(hooks) = 2
    /\ hooks[1].id = Toks(<<"black">>) /\ hooks[2].id = Toks(<<"ruff">>)

(***************************************************************************)
(* SpecJson: lines 326-350 applied to stdout that decodes as JSON, over    *)
(* payloads with up to MaxRecords records and a few other shapes.          *)
(***************************************************************************)
Missing == [t |-> "missing"]
StatusValues == {Missing, Str("passed"), Str("failed"), Str("skipped"), Str("PASSED"), Num(1)}
HookIdValues == {Missing, Str("ruff"), Num(7)}
FilesValues == {Missing, Str("a.py")}

\* The record with the given fields, a Missing one left out.
Record(st, id, fl) ==
    LET val == [status |-> st, hook_id |-> id, files |-> fl, repo |-> Str("local")]
    IN  Dict([k \in {k \in DOMAIN val : val[k] # Missing} |-> val[k]])

Records == {Record(st, id, fl) : st \in StatusValues, id \in HookIdValues, fl \in FilesValues}

Payloads ==
    {Dict([results |-> List(items)]) : items \in SeqsUpTo(Records, MaxRecords)}
    \cup {Dict([summary |-> Str("ok")]), Dict([results |-> None]),
          Dict([results |-> Str("passed")]), List(<<GoodRecord>>), Num(1)}

InitJson ==
    /\ Unused("json_in")
    /\ req = LintArgs(None, "src", TRUE, None, None, TRUE, None)
    /\ cfg_path = None /\ cmd = <<>> /\ hooks = <<>>
    /\ \E payload \in Payloads : stdout = Stdout(JsonText, payload)

ParseJson ==
    /\ pc = "json_in"
    /\ hooks' = ParseHooks(stdout)
    /\ pc' = "json_out"
    /\ UNCHANGED <<req, fs, src0, procs, writes, cfg_path, cmd, stdout, outcome, rm>>

NextJson == ParseJson

SpecJson == InitJson /\ [][NextJson]_vars

\* stdout decodes to a payload with a top-level list of hook records.
HasRecordList ==
    /\ stdout.json.t = "dict"
    /\ "results" \in DOMAIN stdout.json.d
    /\ stdout.json.d["results"].t = "list"
    /\ \A i \in DOMAIN stdout.json.d["results"].xs : stdout.json.d["results"].xs[i].t = "dict"
RecordList == stdout.json.d["results"].xs

Field(rec, k) == IF k \in DOMAIN rec.d THEN rec.d[k] ELSE None
Normalized(rec) ==
    IF Field(rec, "status") \in {Str("passed"), Str("failed"), Str("skipped")}
    THEN Field(rec, "status").s
    ELSE "unknown"

OnePerRecord ==
    /\ Len(hooks) = Len(RecordList)
    /\ \A i \in DOMAIN RecordList :
          /\ hooks[i].status = Normalized(RecordList[i])
          /\ hooks[i].raw = RecordList[i]

\* C10 as stated: for a payload with a top-level list of hook records the
\* hook list has one HookResult per record, in order, with the status
\* normalized to passed/failed/skipped or else "unknown", and raw equal to
\* the record.
C10_OnePerRecord ==
    (pc = "json_out" /\ HasRecordList) => OnePerRecord

\* A record HookResult accepts: hook_id, repo and rev are strings or null or
\* missing, and files is a list of strings, or falsy, or missing.
TextOrNull(v) == v = None \/ v.t = "str"
WellTyped(rec) ==
    /\ TextOrNull(Field(rec, "hook_id"))
    /\ TextOrNull(Field(rec, "repo"))
    /\ TextOrNull(Field(rec, "rev"))
    /\ \/ ~Truthy(Field(rec, "files"))
       \/ /\ Field(rec, "files").t = "list"
          /\ \A i \in DOMAIN Field(rec, "files").xs : Field(rec, "files").xs[i].t = "str"

\* C10, amended: for a payload with a top-level list of hook records each of
\* which has well-typed hook_id, repo, rev and files, the hook list has one
\* HookResult per record, in order, with the status normalized to
\* passed/failed/skipped or else "unknown" (also when it is missing), and raw
\* equal to the record.
C10_OnePerWellTypedRecord ==
    (pc = "json_out" /\ HasRecordList /\ \A i \in DOMAIN RecordList : WellTyped(RecordList[i]))
    => OnePerRecord

\* Two records, the first passed, the second with a status outside the
\* three: "passed" and "unknown", raw kept.
C10_Witness ==
    /\ pc = "json_out" /\ HasRecordList
    /\ RecordList = <<Record(Str("passed"), Str("ruff"), Missing),
                      Record(Str("PASSED"), Missing, Missing)>>
    /\ Len(hooks) = 2
    /\ hooks[1].status = "passed" /\ hooks[2].status = "unknown"
    /\ hooks[2].raw = RecordList[2]

(***************************************************************************)
(* The git bootstrap as seen when the lint process has been launched,      *)
(* under Spec.                                                             *)
(***************************************************************************)
GitRuns == SelectSeq(procs, LAMBDA argv : argv[1] = "git")
Bootstrap ==
    <<<<"git", "init">>, <<"git", "add", "-A">>,
      <<"git", "commit", "--allow-empty", "-m", "init">>>>

\* C11 as stated: when the lint process is started the working copy is a
\* repository: either .git came with the copy and no git command ran, or
\* init, add -A and commit --allow-empty ran in that order and the
\* repository and its initial commit exist, whatever the exit codes were.
C11_RepositoryBeforeLint ==
    (pc = "finally" /\ LintStarted) =>
        IF GIT \in src0.files
        THEN GitRuns = <<>> /\ GIT \in fs["work"].files
        ELSE /\ GitRuns = Bootstrap
             /\ GIT \in fs["work"].files
             /\ COMMIT \in fs["work"].files

(***************************************************************************)
(* SpecRun: _run applied to every non-empty argument vector of up to       *)
(* MaxArgs words, and to the three git commands, for every layout of the   *)
(* virtual environment in the working copy.                                *)
(***************************************************************************)
ArgWords == {"pre-commit", "python", "-m", "pre_commit", "pytest", "run"}
Argvs == (SeqsUpTo(ArgWords, MaxArgs) \ {<<>>}) \cup Range(Bootstrap)

InitRun ==
    /\ src0 = NoDir /\ pc = "run_in"
    /\ procs = <<>> /\ writes = <<>> /\ outcome = NoOutcome /\ rm = NoRm
    /\ cfg_path = None /\ stdout = EmptyStdout /\ hooks = <<>>
    /\ \E vp \in {None, Str(""), Str(VENV)} :
          req = LintArgs(None, "src", TRUE, None, None, TRUE, vp)
    /\ \E layout \in VenvLayouts :
          fs = [d \in Roots |-> IF d = Workdir THEN Dir(TRUE, layout) ELSE NoDir]
    /\ cmd \in Argvs

RunCmd ==
    /\ pc = "run_in"
    /\ Launch(cmd)
    /\ pc' = "run_out"
    /\ UNCHANGED <<req, fs, src0, writes, cfg_path, cmd, stdout, hooks, outcome, rm>>

NextRun == RunCmd

SpecRun == InitRun /\ [][NextRun]_vars

\* A virtual environment is configured, its directory exists and holds an
\* interpreter; the interpreter is bin/python, or else Scripts/python.exe.
VenvFound ==
    /\ req.relative_virtualenv_path = Str(".venv")
    /\ ".venv" \in fs["work"].files
    /\ {".venv/bin/python", ".venv/Scripts/python.exe"} \cap fs["work"].files # {}
Interpreter ==
    IF ".venv/bin/python" \in fs["work"].files
    THEN "work/.venv/bin/python"
    ELSE "work/.venv/Scripts/python.exe"

Starts(c, prefix) == Len(c) >= Len(prefix) /\ SubSeq(c, 1, Len(prefix)) = prefix
From(c, i) == SubSeq(c, i, Len(c))
Executed == procs[1]

\* C12 as stated: with an interpreter found, ["pre-commit", rest...] and
\* ["python", "-m", "pre_commit", rest...] become [interpreter, "-m",
\* "pre_commit", rest...], any other ["python", "-m", module, rest...] becomes
\* [interpreter, "-m", module, rest...], and every other vector is executed
\* unchanged; without an interpreter found every vector is executed unchanged.
C12_RewriteThreeShapes ==
    pc = "run_out" =>
        IF ~VenvFound THEN Executed = cmd
        ELSE IF Starts(cmd, <<"pre-commit">>)
        THEN Executed = <<Interpreter, "-m", "pre_commit">> \o From(cmd, 2)
        ELSE IF Starts(cmd, <<"python", "-m", "pre_commit">>)
        THEN Executed = <<Interpreter, "-m", "pre_commit">> \o From(cmd, 4)
        ELSE IF Starts(cmd, <<"python", "-m">>) /\ Len(cmd) >= 3
        THEN Executed = <<Interpreter, "-m", cmd[3]>> \o From(cmd, 4)
        ELSE Executed = cmd

\* C12, amended: as stated, except that every other vector beginning
\* "python", "-m" is rewritten to [interpreter, "-m", rest...], the bare
\* ["python", "-m"] with no module included; the vectors are non-empty.
C12_RewriteShapes ==
    pc = "run_out" =>
        IF ~VenvFound THEN Executed = cmd
        ELSE IF Starts(cmd, <<"pre-commit">>)
        THEN Executed = <<Interpreter, "-m", "pre_commit">> \o From(cmd, 2)
        ELSE IF Starts(cmd, <<"python", "-m", "pre_commit">>)
        THEN Executed = <<Interpreter, "-m", "pre_commit">> \o From(cmd, 4)
        ELSE IF Starts(cmd, <<"python", "-m">>)
        THEN Executed = <<Interpreter, "-m">> \o From(cmd, 3)
        ELSE Executed = cmd

\* python -m pytest run, with the interpreter only at Scripts/python.exe.
C12_Witness ==
    /\ pc = "run_out" /\ VenvFound
    /\ ".venv/bin/python" \notin fs["work"].files
    /\ cmd = <<"python", "-m", "pytest", "run">>
    /\ Executed = <<"work/.venv/Scripts/python.exe", "-m", "pytest", "run">>

====
